---- MODULE Spec2Model ----
(***************************************************************************)
(* Model of the extraction run of i18n-extract-cli (core.ts, default       *)
(* export), of the batched key naming of openaiKeyGenerator.ts             *)
(* (generateSemanticSnakeCaseKeys, ensureUniqueKeys, toSnakeCase), of the  *)
(* per-literal naming (OpenAIKeyGenerator.generateKey, customizeKey of     *)
(* enhancedCustomizeKey.ts) and of the optimize-keys command.              *)
(*                                                                         *)
(* Strings are sequences of characters.  A character is a one-element      *)
(* TLA+ string; the multi-letter strings "ti", "jiao", "que", "ren"        *)
(* and "jiu" each stand for ONE CJK character (U+63D0, U+4EA4, U+786E,     *)
(* U+8BA4, U+65E7) and "e'" stands for U+00E9 (e with acute accent).       *)
(*                                                                         *)
(* A JavaScript object (Record<string, string>) is a sequence of           *)
(* [k, v] entries kept in the order Object.keys enumerates them.           *)
(***************************************************************************)
EXTENDS Integers, Sequences, FiniteSets, TLC

\* ------------------------------------------------------------------------
\* Bounds of the model
\* ------------------------------------------------------------------------
MaxOriginals == 3
MaxFiles == 2
MaxPasses == 2
MaxRequests == 3

\* ------------------------------------------------------------------------
\* Characters and strings
\* ------------------------------------------------------------------------
LowerChars == {"a", "b", "c", "d", "e", "f", "g", "h", "i", "j", "k", "l", "m", "n",
               "o", "p", "q", "r", "s", "t", "u", "v", "w", "x", "y", "z"}
UpperChars == {"A", "C", "M", "P", "S"}
DigitChars == {"0", "1", "2", "3", "4", "5", "6", "7", "8", "9"}
SpaceChars == {" "}
CjkChars == {"ti", "jiao", "que", "ren", "jiu"}

IsAlnum(c) == c \in LowerChars \cup UpperChars \cup DigitChars

ToLowerChar(c) ==
  IF c = "A" THEN "a" ELSE IF c = "C" THEN "c" ELSE IF c = "M" THEN "m"
  ELSE IF c = "P" THEN "p" ELSE IF c = "S" THEN "s" ELSE c

\* String.prototype.normalize('NFKD') followed by the removal of the
\* combining marks U+0300..U+036F: an accented letter loses its accent.
StripAccent(c) == IF c = "e'" THEN "e" ELSE c

StripAccents(s) == [i \in 1..Len(s) |-> StripAccent(s[i])]

RECURSIVE DropWhileNotAlnum(_)
DropWhileNotAlnum(s) ==
  IF s = <<>> THEN <<>>
  ELSE IF IsAlnum(Head(s)) THEN s
  ELSE DropWhileNotAlnum(Tail(s))

\* .replace(/[^a-zA-Z0-9]+/g, ' ')
RECURSIVE ReplaceNonAlnumRuns(_)
ReplaceNonAlnumRuns(s) ==
  IF s = <<>> THEN <<>>
  ELSE IF IsAlnum(Head(s)) THEN <<Head(s)>> \o ReplaceNonAlnumRuns(Tail(s))
  ELSE <<" ">> \o ReplaceNonAlnumRuns(DropWhileNotAlnum(Tail(s)))

RECURSIVE TrimLeft(_)
TrimLeft(s) ==
  IF s # <<>> /\ Head(s) \in SpaceChars THEN TrimLeft(Tail(s)) ELSE s

RECURSIVE TrimRight(_)
TrimRight(s) ==
  IF s # <<>> /\ s[Len(s)] \in SpaceChars
  THEN TrimRight(SubSeq(s, 1, Len(s) - 1))
  ELSE s

\* String.prototype.trim
Trim(s) == TrimRight(TrimLeft(s))

\* .split(/\s+/).map(toLowerCase).join('_') of a trimmed string whose
\* whitespace runs are single blanks
JoinWords(s) ==
  [i \in 1..Len(s) |-> IF s[i] \in SpaceChars THEN "_" ELSE ToLowerChar(s[i])]

toSnakeCase(input) ==
  LET ascii == Trim(ReplaceNonAlnumRuns(StripAccents(input)))
  IN IF ascii = <<>> THEN <<>> ELSE JoinWords(ascii)

\* Decimal rendering of a natural number (template literal `${i}`)
RECURSIVE Digits(_)
Digits(n) ==
  LET d == <<"0", "1", "2", "3", "4", "5", "6", "7", "8", "9">>[(n % 10) + 1]
  IN IF n < 10 THEN <<d>> ELSE Digits(n \div 10) \o <<d>>

\* `${key}_${i}`
Suffixed(key, i) == key \o <<"_">> \o Digits(i)

\* ------------------------------------------------------------------------
\* JavaScript objects: ordered property lists
\* ------------------------------------------------------------------------
EmptyObj == <<>>

ObjKeys(o) == [i \in 1..Len(o) |-> o[i].k]

ObjKeySet(o) == {o[i].k : i \in 1..Len(o)}

ObjHas(o, key) == key \in ObjKeySet(o)

ObjGet(o, key) == o[CHOOSE i \in 1..Len(o) : o[i].k = key].v

\* A canonical array index ("0", "7", "12", no sign, no leading zero):
\* such property names are enumerated first, in ascending numeric order.
IsArrayIndex(s) ==
  /\ s # <<>>
  /\ \A i \in 1..Len(s) : s[i] \in DigitChars
  /\ (Len(s) > 1 => s[1] # "0")

RECURSIVE NumValue(_)
NumValue(s) ==
  IF s = <<>> THEN 0
  ELSE LET last == s[Len(s)]
           d == CHOOSE n \in 0..9 : Digits(n) = <<last>>
       IN 10 * NumValue(SubSeq(s, 1, Len(s) - 1)) + d

\* Position at which a new property is inserted so that the enumeration
\* order is: array indices ascending, then the other names in insertion
\* order.
InsertPos(o, key) ==
  IF IsArrayIndex(key)
  THEN 1 + Cardinality({i \in 1..Len(o) :
                          IsArrayIndex(o[i].k) /\ NumValue(o[i].k) < NumValue(key)})
  ELSE Len(o) + 1

\* o[key] = val
ObjSet(o, key, val) ==
  IF ObjHas(o, key)
  THEN [i \in 1..Len(o) |-> IF o[i].k = key THEN [k |-> key, v |-> val] ELSE o[i]]
  ELSE LET p == InsertPos(o, key)
       IN SubSeq(o, 1, p - 1) \o <<[k |-> key, v |-> val]>> \o SubSeq(o, p, Len(o))

ObjValues(o) == [i \in 1..Len(o) |-> o[i].v]

ObjValueSet(o) == {o[i].v : i \in 1..Len(o)}

SeqRange(s) == {s[i] : i \in 1..Len(s)}

\* ------------------------------------------------------------------------
\* openaiKeyGenerator.ts: ensureUniqueKeys and generateSemanticSnakeCaseKeys
\* ------------------------------------------------------------------------
EnsureSuffixStart == 1
ReservedSuffixStart == 2

\* while (used.has(candidate)) candidate = `${key}_${i++}`
RECURSIVE FirstFree(_, _, _)
FirstFree(key, i, used) ==
  IF Suffixed(key, i) \in used THEN FirstFree(key, i + 1, used) ELSE Suffixed(key, i)

FreeCandidate(key, start, used) ==
  IF key \in used THEN FirstFree(key, start, used) ELSE key

\* The forEach of ensureUniqueKeys from property number idx on
RECURSIVE EnsureLoop(_, _, _, _)
EnsureLoop(map, idx, used, result) ==
  IF idx > Len(map) THEN result
  ELSE LET k == map[idx].k
           key0 == map[idx].v
           key1 == IF key0 = <<>> THEN toSnakeCase(k) ELSE key0
           key == IF key1 = <<>> THEN <<"k", "e", "y">> ELSE key1
           candidate == FreeCandidate(key, EnsureSuffixStart, used)
       IN EnsureLoop(map, idx + 1, used \cup {candidate}, ObjSet(result, k, candidate))

ensureUniqueKeys(map) == EnsureLoop(map, 1, {}, EmptyObj)

\* mutant: used.add(cand) is missing
RECURSIVE AdjustLoop_NoAdd(_, _, _, _)
AdjustLoop_NoAdd(map, idx, used, adjusted) ==
  IF idx > Len(map) THEN adjusted
  ELSE LET k == map[idx].k
           val == map[idx].v
           cand == FreeCandidate(val, ReservedSuffixStart, used)
       IN AdjustLoop_NoAdd(map, idx + 1, used, ObjSet(adjusted, k, cand))

\* The forEach that moves every key away from the keys in use
\* (const used = new Set(reservedKeys); ... used.add(cand))
RECURSIVE AdjustLoop(_, _, _, _)
AdjustLoop(map, idx, used, adjusted) ==
  IF idx > Len(map) THEN adjusted
  ELSE LET k == map[idx].k
           val == map[idx].v
           cand == FreeCandidate(val, ReservedSuffixStart, used)
       IN AdjustLoop(map, idx + 1, used \cup {cand}, ObjSet(adjusted, k, cand))

\* mutant: the reserved keys are not put into the set of keys in use
AdjustReserved_IgnoreReserved(map, reservedKeys) == AdjustLoop(map, 1, {}, EmptyObj)

AdjustReserved(map, reservedKeys) == AdjustLoop(map, 1, reservedKeys, EmptyObj)

\* toSnakeCase(o) || `key_${idx + 1}`   (idx is the 0-based array index)
NaiveKey(o, idx) ==
  IF toSnakeCase(o) # <<>> THEN toSnakeCase(o)
  ELSE Suffixed(<<"k", "e", "y">>, idx + 1)

\* originals.forEach((o, idx) => { naive[o] = toSnakeCase(o) || ... })
RECURSIVE NaiveLoop(_, _, _)
NaiveLoop(originals, i, naive) ==
  IF i > Len(originals) THEN naive
  ELSE NaiveLoop(originals, i + 1,
                 ObjSet(naive, originals[i], NaiveKey(originals[i], i - 1)))

\* A value of the parsed reply: a string, or anything else (absent
\* property, number, object, null)
NotAString == [isString |-> FALSE, str |-> <<>>]
StringValue(s) == [isString |-> TRUE, str |-> s]

\* parsed[o] of the reply; a reply that is not an object of strings
\* (an array, a number) has no entry for any literal
ParsedAt(parsed, o) == IF o \in DOMAIN parsed THEN parsed[o] ELSE NotAString

\* typeof v === 'string' && v.trim() ? v.trim() : toSnakeCase(o) || ...
ReplyKey(parsed, o, idx) ==
  LET v == ParsedAt(parsed, o)
  IN IF v.isString /\ Trim(v.str) # <<>> THEN Trim(v.str) ELSE NaiveKey(o, idx)

RECURSIVE ReplyLoop(_, _, _, _)
ReplyLoop(originals, parsed, i, result) ==
  IF i > Len(originals) THEN result
  ELSE ReplyLoop(originals, parsed, i + 1,
                 ObjSet(result, originals[i], ReplyKey(parsed, originals[i], i - 1)))

\* if (!apiKey) { ... return adjusted }
NoKeyPath(originals, reservedKeys) ==
  AdjustReserved(ensureUniqueKeys(NaiveLoop(originals, 1, EmptyObj)), reservedKeys)

\* if (parsed) { ... return adjusted }
ReplyPath(originals, parsed, reservedKeys) ==
  AdjustReserved(ensureUniqueKeys(ReplyLoop(originals, parsed, 1, EmptyObj)), reservedKeys)

\* The code after the try block: request rejected, or no JSON in the reply
\* FallbackPath that leaves the batch without keys
FallbackPath_Empty(originals, reservedKeys) == EmptyObj

FallbackPath(originals, reservedKeys) ==
  AdjustReserved(ensureUniqueKeys(NaiveLoop(originals, 1, EmptyObj)), reservedKeys)

\* reply.kind: "parsed"   the request succeeded and its content parsed to a
\*                        truthy value (reply.parsed)
\*             "unparsed" the request succeeded, the content holds no JSON
\*                        value or a falsy one (parsed stays undefined/null)
\*             "rejected" postJSON rejected or JSON.parse of the extracted
\*                        block threw (caught and ignored)
generateSemanticSnakeCaseKeys(originals, hasApiKey, reply, reservedKeys) ==
  IF ~hasApiKey THEN NoKeyPath(originals, reservedKeys)
  ELSE IF reply.kind = "parsed" THEN ReplyPath(originals, reply.parsed, reservedKeys)
  ELSE FallbackPath(originals, reservedKeys)


\* ------------------------------------------------------------------------
\* Literals, replies and reserved sets the naming is exercised with
\* ------------------------------------------------------------------------
TiJiao == <<"ti", "jiao">>
QueRen == <<"que", "ren">>
Submit == <<"s", "u", "b", "m", "i", "t">>

\* "A" snake-cases to "a"; "key 1" snake-cases to "key_1", the fallback key
\* of the first literal of a batch; "2" is an array index, which Object.keys
\* enumerates before every other property name.
Literals == {TiJiao, QueRen, <<"A">>, <<"k", "e", "y", " ", "1">>, <<"2">>}

\* a value that is no string, "submit", " submit_2 ", and "Submit", which
\* is not written in snake_case
ReplyValues ==
  {NotAString, StringValue(Submit), StringValue(<<" ">> \o Suffixed(Submit, 2) \o <<" ">>),
   StringValue(<<"S">> \o Tail(Submit))}

ReservedSets ==
  {{}, {Submit}, {<<"k", "e", "y", "_", "1">>, <<"a">>}}

SeqsUpTo(S, n) == UNION {[1..m -> S] : m \in 0..n}

NoReply == [kind |-> "none", parsed |-> <<>>]

Replies(lits) ==
  {[kind |-> "rejected", parsed |-> <<>>], [kind |-> "unparsed", parsed |-> <<>>]}
  \cup {[kind |-> "parsed", parsed |-> f] : f \in [lits -> ReplyValues]}

\* ------------------------------------------------------------------------
\* enhancedCustomizeKey.ts: generateTempKey and customizeKey
\* ------------------------------------------------------------------------
Includes(s, sub) ==
  \E i \in 1..(Len(s) - Len(sub) + 1) : SubSeq(s, i, i + Len(sub) - 1) = sub

ToLowerCase(s) == [i \in 1..Len(s) |-> ToLowerChar(s[i])]

\* .replace(/([A-Z])/g, '_$1')
RECURSIVE UnderscoreCapitals(_)
UnderscoreCapitals(s) ==
  IF s = <<>> THEN <<>>
  ELSE (IF Head(s) \in UpperChars THEN <<"_", Head(s)>> ELSE <<Head(s)>>)
       \o UnderscoreCapitals(Tail(s))

\* .replace(/^_/, '')
DropLeadingUnderscore(s) == IF s # <<>> /\ Head(s) = "_" THEN Tail(s) ELSE s

\* .replace(/_$/, '')
DropTrailingUnderscore(s) ==
  IF s # <<>> /\ s[Len(s)] = "_" THEN SubSeq(s, 1, Len(s) - 1) ELSE s

\* segment.replace(/([A-Z])/g, '_$1').toLowerCase().replace(/^_/, '')
SegmentContext(segment) == DropLeadingUnderscore(ToLowerCase(UnderscoreCapitals(segment)))

Management == <<"M", "a", "n", "a", "g", "e", "m", "e", "n", "t">>
Settings == <<"S", "e", "t", "t", "i", "n", "g", "s">>
Authorization == <<"A", "u", "t", "h", "o", "r", "i", "z", "a", "t", "i", "o", "n">>
Pages == <<"p", "a", "g", "e", "s">>

\* The loop over the path segments, from segment number i on
RECURSIVE ContextFrom(_, _)
ContextFrom(pathSegments, i) ==
  IF i > Len(pathSegments) THEN <<>>
  ELSE LET segment == pathSegments[i]
       IN IF \/ Includes(segment, Management)
             \/ Includes(segment, Settings)
             \/ Includes(segment, Authorization)
          THEN SegmentContext(segment)
          ELSE IF i > 1 /\ pathSegments[i - 1] = Pages
          THEN SegmentContext(segment)
          ELSE ContextFrom(pathSegments, i + 1)

\* The entries of translationMap whose phrase can be written with the
\* modelled characters, longest phrase first
TranslationMap == <<[chinese |-> QueRen, english |-> <<"c", "o", "n", "f", "i", "r", "m">>]>>

\* .replace(/[^\u4e00-\u9fa5a-zA-Z0-9\s]/g, '')
RECURSIVE KeepTextChars(_)
KeepTextChars(s) ==
  IF s = <<>> THEN <<>>
  ELSE (IF IsAlnum(Head(s)) \/ Head(s) \in CjkChars \/ Head(s) \in SpaceChars
        THEN <<Head(s)>> ELSE <<>>) \o KeepTextChars(Tail(s))

\* for (const [chinese, english] of sortedTranslations) { ... break }
RECURSIVE FirstTranslation(_, _)
FirstTranslation(remainingText, i) ==
  IF i > Len(TranslationMap) THEN <<>>
  ELSE IF Includes(remainingText, TranslationMap[i].chinese)
  THEN <<TranslationMap[i].english>>
  ELSE FirstTranslation(remainingText, i + 1)

\* keyParts.filter(nonEmpty).join('_')
RECURSIVE JoinParts(_)
JoinParts(parts) ==
  IF parts = <<>> THEN <<>>
  ELSE IF Head(parts) = <<>> THEN JoinParts(Tail(parts))
  ELSE LET rest == JoinParts(Tail(parts))
       IN IF rest = <<>> /\ \A j \in 1..Len(Tail(parts)) : Tail(parts)[j] = <<>>
          THEN Head(parts)
          ELSE Head(parts) \o <<"_">> \o rest

\* .replace(/[^a-z0-9_]/g, '')
RECURSIVE KeepKeyChars(_)
KeepKeyChars(s) ==
  IF s = <<>> THEN <<>>
  ELSE (IF Head(s) \in LowerChars \cup DigitChars \cup {"_"} THEN <<Head(s)>> ELSE <<>>)
       \o KeepKeyChars(Tail(s))

\* .replace(/_+/g, '_')
RECURSIVE MergeUnderscores(_)
MergeUnderscores(s) ==
  IF Len(s) < 2 THEN s
  ELSE IF s[1] = "_" /\ s[2] = "_" THEN MergeUnderscores(Tail(s))
  ELSE <<Head(s)>> \o MergeUnderscores(Tail(s))

generateTempKey(chineseText, filePath) ==
  LET context == ContextFrom(filePath, 1)
      remainingText == Trim(KeepTextChars(chineseText))
      matched == (IF context # <<>> THEN <<context>> ELSE <<>>)
                 \o FirstTranslation(remainingText, 1)
      keyParts == IF matched = <<>>
                  THEN <<<<"g", "e", "n", "e", "r", "a", "t", "e", "d">>,
                         <<"t", "e", "x", "t">>>>
                  ELSE matched
      cleaned == DropTrailingUnderscore(DropLeadingUnderscore(
                   MergeUnderscores(KeepKeyChars(ToLowerCase(JoinParts(keyParts))))))
  IN IF cleaned # <<>> /\ Head(cleaned) \in LowerChars
     THEN cleaned
     ELSE <<"k", "e", "y", "_">> \o cleaned

\* filePath as a string
RECURSIVE PathString(_)
PathString(segments) ==
  IF segments = <<>> THEN <<>>
  ELSE IF Len(segments) = 1 THEN segments[1]
  ELSE segments[1] \o <<"/">> \o PathString(Tail(segments))

\* `${key}:${path || ''}`
CacheKey(key, path) == key \o <<":">> \o PathString(path)


\* ------------------------------------------------------------------------
\* State
\* ------------------------------------------------------------------------
VARIABLES
  originals,          \* generateSemanticSnakeCaseKeys: the literals passed
  hasApiKey,          \* openai.apiKey is a non-empty string
  reply,              \* outcome of the chat-completions request
  reservedKeys,       \* the reserved set passed
  mapping,            \* the object returned
  genPc,              \* "call" before the call returns, "returned" after it
  i18nConfig,         \* the other configuration fields the run reads
  sourceFilePaths,    \* the input files, in discovery order
  oldPrimaryLang,     \* the object read from the locale file
  pc,                 \* position of the default export of core.ts
  fileIdx,            \* index of the next file of the current pass
  keyMap,             \* Collector: the Key Map
  currentFileKeyMap,  \* Collector: the keys of the current file
  countOfAdditions,   \* Collector: additions since the last reset
  openAIKeyMap,       \* StateManager.openAIKeyMap
  disk,               \* what fs.writeFileSync has put at each output path
  savedLocale,        \* what saveLocale has written
  keyCache,           \* enhancedCustomizeKey: keyCache
  pendingKeys,        \* enhancedCustomizeKey: pendingKeys
  persisted,          \* history: the locale file as read at the start
  writeLog,           \* history: the file writes, in order
  namingLog,          \* history: the calls of generateSemanticSnakeCaseKeys
  hookLog,            \* history: the calls of adjustKeyMap
  passLog,            \* history: the files processed, in order
  newlyCollected,     \* history: the Key Map collected from the sources
  errorLog,           \* errorLogger: the files recorded as failed
  failedRequests,     \* history: the per-literal requests that failed
  passNo,             \* number of the pass that calls customizeKey
  issued,             \* history: the requests given to keyGenerator.generateKey
  returned,           \* history: the keys customizeKey returned, per pass
  options,            \* optimizeKeys: dryRun, outputPath, openaiConfig.apiKey
  OPENAI_API_KEY,     \* process.env.OPENAI_API_KEY is a non-empty string
  originalLocale,     \* optimizeKeys: the object read from the locale file
  optPc,              \* position of optimizeKeys
  optimizedKeyMap,    \* optimizeKeys: optimized key -> text
  keyMappings,        \* optimizeKeys: original key -> optimized key
  results,            \* history: the result of each key, with the reply it got
  files               \* what optimizeKeys has written at each path

genVars == <<originals, hasApiKey, reply, reservedKeys, mapping, genPc>>

runVars ==
  <<i18nConfig, sourceFilePaths, oldPrimaryLang, pc, fileIdx, keyMap, currentFileKeyMap,
    countOfAdditions, openAIKeyMap, disk, savedLocale, keyCache, pendingKeys,
    persisted, writeLog, namingLog, hookLog, passLog, newlyCollected>>

faultVars == <<errorLog, failedRequests>>

keysVars == <<passNo, issued, returned>>

optVars ==
  <<options, OPENAI_API_KEY, originalLocale, optPc, optimizedKeyMap, keyMappings,
    results, files>>

vars == <<genVars, runVars, faultVars, keysVars, optVars>>

NotSaved == [saved |-> FALSE, keyMap |-> EmptyObj]

\* optimizeKeys has not been called
NoOptimize ==
  /\ options = [dryRun |-> FALSE, outputPath |-> FALSE, apiKey |-> FALSE]
  /\ originalLocale = EmptyObj
  /\ optPc = "Idle"
  /\ optimizedKeyMap = EmptyObj
  /\ keyMappings = EmptyObj
  /\ results = <<>>
  /\ files = <<>>

\* ------------------------------------------------------------------------
\* SpecGen: generateSemanticSnakeCaseKeys applied to every bounded input
\* ------------------------------------------------------------------------
NoRun ==
  /\ i18nConfig = [baseUrl |-> FALSE]
  /\ sourceFilePaths = <<>>
  /\ oldPrimaryLang = EmptyObj
  /\ pc = "Idle"
  /\ fileIdx = 0
  /\ keyMap = EmptyObj
  /\ currentFileKeyMap = EmptyObj
  /\ countOfAdditions = 0
  /\ openAIKeyMap = EmptyObj
  /\ disk = <<>>
  /\ savedLocale = NotSaved
  /\ keyCache = EmptyObj
  /\ pendingKeys = {}
  /\ persisted = EmptyObj
  /\ writeLog = <<>>
  /\ namingLog = <<>>
  /\ hookLog = <<>>
  /\ passLog = <<>>
  /\ newlyCollected = EmptyObj
  /\ errorLog = {}
  /\ failedRequests = {}
  /\ passNo = 1
  /\ issued = <<>>
  /\ returned = {}

InitGen ==
  /\ originals \in SeqsUpTo(Literals, MaxOriginals)
  /\ hasApiKey \in BOOLEAN
  /\ reply \in (IF hasApiKey THEN Replies(SeqRange(originals)) ELSE {NoReply})
  /\ reservedKeys \in ReservedSets
  /\ mapping = EmptyObj
  /\ genPc = "call"
  /\ NoRun
  /\ NoOptimize
  /\ OPENAI_API_KEY = FALSE

GenReturn ==
  /\ mapping' = generateSemanticSnakeCaseKeys(originals, hasApiKey, reply, reservedKeys)
  /\ genPc' = "returned"
  /\ UNCHANGED <<originals, hasApiKey, reply, reservedKeys>>
  /\ UNCHANGED <<runVars, faultVars, keysVars, optVars>>

\* the call without an API key
GenNoKey == genPc = "call" /\ ~hasApiKey /\ GenReturn

\* the call whose request is answered by a parsed reply
GenReply == genPc = "call" /\ hasApiKey /\ reply.kind = "parsed" /\ GenReturn

\* the call whose request fails or whose reply holds no JSON
GenFallback == genPc = "call" /\ hasApiKey /\ reply.kind # "parsed" /\ GenReturn

NextGen == GenNoKey \/ GenReply \/ GenFallback

SpecGen == InitGen /\ [][NextGen]_vars

\* ------------------------------------------------------------------------
\* The extraction run: inputs
\* ------------------------------------------------------------------------
Src == <<"s", "r", "c">>

\* path of the i-th input file: src/f<i>.ts for odd i,
\* src/pages/AManagement/f<i>.ts for even i
FilePath(i) ==
  LET name == <<"f">> \o Digits(i) \o <<".", "t", "s">>
  IN IF i % 2 = 1 THEN <<Src, name>> ELSE <<Src, Pages, <<"A">> \o Management, name>>

\* What a source file holds: blank is sourceCode.trim() === '', literals
\* are the translatable texts in source order, forceImport is
\* rules[ext].forceImport of the file's extension; malformed: the source
\* does not parse; unwritable: fs.writeFileSync to its output path throws.
SourceFile(blank, literals, forceImport) ==
  [blank |-> blank, literals |-> literals, forceImport |-> forceImport,
   malformed |-> FALSE, unwritable |-> FALSE]

FileContents ==
  {SourceFile(TRUE, <<>>, FALSE),
   SourceFile(FALSE, <<>>, FALSE),
   SourceFile(FALSE, <<>>, TRUE),
   SourceFile(FALSE, <<TiJiao>>, FALSE),
   SourceFile(FALSE, <<QueRen, TiJiao>>, FALSE)}

\* Files of the runs in which a file fails: a sound file, a file that does
\* not parse (with and without forceImport), a file that cannot be written
FaultyContents ==
  {SourceFile(FALSE, <<TiJiao>>, FALSE),
   [SourceFile(FALSE, <<QueRen>>, FALSE) EXCEPT !.malformed = TRUE],
   [SourceFile(FALSE, <<QueRen>>, TRUE) EXCEPT !.malformed = TRUE],
   [SourceFile(FALSE, <<QueRen>>, FALSE) EXCEPT !.unwritable = TRUE]}

WithPaths(contents) ==
  [i \in 1..Len(contents) |->
     [path |-> FilePath(i), blank |-> contents[i].blank,
      literals |-> contents[i].literals, forceImport |-> contents[i].forceImport,
      malformed |-> contents[i].malformed, unwritable |-> contents[i].unwritable]]

OldText == <<"jiu">>
OldKey == <<"o", "l", "d">>

\* contents of the locale file found at the start of the run
OldLocales == {EmptyObj, <<[k |-> OldKey, v |-> OldText]>>}

\* existedConfig: no reserved keys at all, or local existedKeys together
\* with a getExistedUrl, without mapFieldToKey and with mapFieldToKey: 'id'
ExistedConfigs ==
  {[existedKeys |-> {}, getExistedUrl |-> FALSE, mapFieldToKey |-> <<>>],
   [existedKeys |-> {Submit}, getExistedUrl |-> TRUE, mapFieldToKey |-> <<>>],
   [existedKeys |-> {Submit}, getExistedUrl |-> TRUE, mapFieldToKey |-> <<"i", "d">>]}

\* Configurations of the runs whose rules use the default customizeKey
Configs ==
  {[baseUrl |-> b, incremental |-> inc, adjustKeyMap |-> h, inputIsArray |-> arr,
    customizeKey |-> "default", existedKeys |-> e.existedKeys,
    getExistedUrl |-> e.getExistedUrl, mapFieldToKey |-> e.mapFieldToKey,
    prettier |-> TRUE] :
     b \in BOOLEAN, inc \in BOOLEAN, h \in {"none", "default", "prefix"},
     arr \in BOOLEAN, e \in ExistedConfigs}

\* Configurations of the runs in which a file fails; prettier tells
\* whether i18nConfig.prettier is an object
FaultConfigs ==
  {[baseUrl |-> b, incremental |-> FALSE, adjustKeyMap |-> "default", inputIsArray |-> arr,
    customizeKey |-> "default", existedKeys |-> {}, getExistedUrl |-> FALSE,
    mapFieldToKey |-> <<>>, prettier |-> pr] :
     b \in BOOLEAN, arr \in BOOLEAN, pr \in BOOLEAN}

\* Configurations of the runs whose rules use createEnhancedCustomizeKey
\* with a working key generator
AsyncConfigs ==
  {[baseUrl |-> b, incremental |-> FALSE, adjustKeyMap |-> "none", inputIsArray |-> FALSE,
    customizeKey |-> "enhanced", existedKeys |-> {}, getExistedUrl |-> FALSE,
    mapFieldToKey |-> <<>>, prettier |-> TRUE] :
     b \in BOOLEAN}

\* Outcomes of the batched naming request in a run: the request fails, the
\* reply holds no JSON, the reply names no literal, the reply names every
\* literal alike
RunReplies(lits) ==
  {[kind |-> "rejected", parsed |-> <<>>], [kind |-> "unparsed", parsed |-> <<>>],
   [kind |-> "parsed", parsed |-> [o \in lits |-> NotAString]],
   [kind |-> "parsed", parsed |-> [o \in lits |-> StringValue(Submit)]]}

\* keys a reachable getExistedUrl delivers
RemoteKeys == {Suffixed(Submit, 2)}

\* No request is made when no URL is configured
NoResponse == [kind |-> "none", isArray |-> FALSE, items |-> <<>>]

\* What the request to getExistedUrl gives: the 'error' event, a body that
\* is no JSON, a JSON value that is no array, and the array
\* [null, {key: "submit_2", id: "a"}, {key: 7}, {}]
Responses ==
  LET key == <<"k", "e", "y">>
      id == <<"i", "d">>
      Item(isObject, fields) == [isObject |-> isObject, fields |-> fields]
  IN {[kind |-> "error", isArray |-> FALSE, items |-> <<>>],
      [kind |-> "notJson", isArray |-> FALSE, items |-> <<>>],
      [kind |-> "json", isArray |-> FALSE, items |-> <<>>],
      [kind |-> "json", isArray |-> TRUE,
       items |-> <<Item(FALSE, EmptyObj),
                   Item(TRUE, <<[k |-> key, v |-> StringValue(Suffixed(Submit, 2))],
                                [k |-> id, v |-> StringValue(<<"a">>)]>>),
                   Item(TRUE, <<[k |-> key, v |-> NotAString]>>),
                   Item(TRUE, EmptyObj)>>]}

\* key a successful per-literal request delivers
GeneratedKey == <<"a", "_", "o", "k", "a", "y">>

NotWritten == [written |-> FALSE, code |-> <<>>]

\* hasOpenAI that looks at the apiKey only
hasOpenAI_ApiKeyOnly == hasApiKey

\* const hasOpenAI = !!(openaiCfg.apiKey || openaiCfg.baseUrl)
hasOpenAI == hasApiKey \/ i18nConfig.baseUrl

\* setOpenAIKeyMap that stores nothing
setOpenAIKeyMap_Drop(map) == EmptyObj

\* StateManager.setOpenAIKeyMap: this.openAIKeyMap = map || {}
setOpenAIKeyMap(map) == map

\* ------------------------------------------------------------------------
\* Key assignment, Collector and transform
\* ------------------------------------------------------------------------
\* default.config.ts: getCustomizeKey
getCustomizeKey(key, path) == key

\* enhancedCustomizeKey.ts: customizeKey with a key generator; yields the
\* key returned and the in-flight map after the call
\* dispatched tells whether keyGenerator.generateKey was called
\* customizeKey without the test of pendingKeys.has(cacheKey)
customizeKey_NoPendingCheck(key, path, pending) ==
  LET cacheKey == CacheKey(key, path)
  IN IF ObjHas(keyCache, cacheKey)
     THEN [key |-> ObjGet(keyCache, cacheKey), pendingKeys |-> pending,
           dispatched |-> FALSE]
     ELSE [key |-> generateTempKey(key, path),
           pendingKeys |-> pending \cup {[cacheKey |-> cacheKey, key |-> key, path |-> path]},
           dispatched |-> TRUE]

customizeKey(key, path, pending) ==
  LET cacheKey == CacheKey(key, path)
      inFlight == \E r \in pending : r.cacheKey = cacheKey
  IN IF ObjHas(keyCache, cacheKey)
     THEN [key |-> ObjGet(keyCache, cacheKey), pendingKeys |-> pending,
           dispatched |-> FALSE]
     ELSE [key |-> generateTempKey(key, path),
           pendingKeys |->
             IF inFlight
             THEN pending
             ELSE pending \cup {[cacheKey |-> cacheKey, key |-> key, path |-> path]},
           dispatched |-> ~inFlight]

\* rules[ext].customizeKey as configured
RuleCustomizeKey(key, path, pending) ==
  IF i18nConfig.customizeKey = "enhanced"
  THEN customizeKey(key, path, pending)
  ELSE [key |-> getCustomizeKey(key, path), pendingKeys |-> pending,
        dispatched |-> FALSE]

\* Key Assigner of the Rewriter: the final key of the text when the naming
\* pass has stored one, the configured naming strategy otherwise
AssignKey(text, path, pending) ==
  IF ObjHas(openAIKeyMap, text)
  THEN [key |-> ObjGet(openAIKeyMap, text), pendingKeys |-> pending,
        dispatched |-> FALSE]
  ELSE RuleCustomizeKey(text, path, pending)

\* Collector: the key under which a text is stored; a key held by another
\* text is suffixed _2, _3, ...
RECURSIVE CollectorSuffix(_, _, _, _)
CollectorSuffix(km, key, text, i) ==
  LET cand == Suffixed(key, i)
  IN IF ObjHas(km, cand) /\ ObjGet(km, cand) # text
     THEN CollectorSuffix(km, key, text, i + 1)
     ELSE cand

CollectorKey(km, key, text) ==
  IF ObjHas(km, key) /\ ObjGet(km, key) # text
  THEN CollectorSuffix(km, key, text, 2)
  ELSE key

\* transform: every literal of the file, in source order, is given a key,
\* added to the Collector and replaced by a call carrying the key
RECURSIVE TransformLoop(_, _, _, _)
TransformLoop(literals, i, path, st) ==
  IF i > Len(literals) THEN st
  ELSE LET text == literals[i]
           a == AssignKey(text, path, st.pendingKeys)
           key == CollectorKey(st.keyMap, a.key, text)
       IN TransformLoop(literals, i + 1, path,
            [keyMap |-> ObjSet(st.keyMap, key, text),
             currentFileKeyMap |-> ObjSet(st.currentFileKeyMap, key, text),
             count |-> st.count + 1,
             pendingKeys |-> a.pendingKeys,
             code |-> Append(st.code, key)])

\* a source that does not parse is recovered from: nothing is extracted and
\* the code comes back as it was
transform(f, count) ==
  TransformLoop(IF f.malformed THEN <<>> ELSE f.literals, 1, f.path,
    [keyMap |-> keyMap, currentFileKeyMap |-> currentFileKeyMap, count |-> count,
     pendingKeys |-> pendingKeys, code |-> <<>>])

\* A hook that renames the keys of the current file (prefix "p_")
RECURSIVE PrefixHook(_, _, _, _)
PrefixHook(allKeyValue, fileKeys, i, result) ==
  IF i > Len(allKeyValue) THEN result
  ELSE LET e == allKeyValue[i]
           k == IF e.k \in fileKeys THEN <<"p", "_">> \o e.k ELSE e.k
       IN PrefixHook(allKeyValue, fileKeys, i + 1, ObjSet(result, k, e.v))

\* adjustKeyMap(cloneDeep(Collector.getKeyMap()), Collector.getCurrentFileKeyMap(), path)
adjustKeyMap(allKeyValue, fileKeyMap, path) ==
  IF i18nConfig.adjustKeyMap = "prefix"
  THEN PrefixHook(allKeyValue, ObjKeySet(fileKeyMap), 1, EmptyObj)
  ELSE allKeyValue

\* lodash merge(object, source) of two flat string objects
RECURSIVE merge(_, _)
merge(object, source) ==
  IF source = <<>> THEN object
  ELSE merge(ObjSet(object, Head(source).k, Head(source).v), Tail(source))

\* the write condition of pass 1 without the test of hasOpenAI
Pass1WriteCondition_Always(count, forceImport) == count > 0 \/ forceImport

\* !hasOpenAI && (Collector.getCountOfAdditions() > 0 || rules[ext].forceImport)
Pass1WriteCondition(count, forceImport) == ~hasOpenAI /\ (count > 0 \/ forceImport)

\* formatCode: prettier.format(code, ...) throws on code that does not parse
FormatThrows(f) == i18nConfig.prettier /\ f.malformed

\* fs.writeFileSync(outputPath, stylizedCode, 'utf8') throws
WriteThrows(f) == f.unwritable

\* the Collector's Key Map kept for pass 2
Pass2StartKeyMap_Kept == keyMap

\* Collector.setKeyMap({}) before pass 2
Pass2StartKeyMap == EmptyObj

\* getReservedKeysFromExistedConfig that drops what the URL delivered
getReservedKeysFromExistedConfig_LocalOnly(response) == i18nConfig.existedKeys

\* getReservedKeysFromExistedConfig, given what the request to the URL gave
getReservedKeysFromExistedConfig(response) ==
  LET local == i18nConfig.existedKeys
      field == IF i18nConfig.mapFieldToKey # <<>> THEN i18nConfig.mapFieldToKey
               ELSE <<"k", "e", "y">>
      \* resolve(JSON.parse(raw)), resolve([]) in the catch and on 'error'
      data == IF response.kind = "json" THEN response
              ELSE [kind |-> "json", isArray |-> TRUE, items |-> <<>>]
      mapped == [i \in 1..Len(data.items) |->
                   IF data.items[i].isObject /\ ObjHas(data.items[i].fields, field)
                   THEN ObjGet(data.items[i].fields, field)
                   ELSE NotAString]
      remote == IF data.isArray
                THEN {mapped[i].str : i \in {j \in 1..Len(mapped) : mapped[j].isString}}
                ELSE {}
  IN IF ~i18nConfig.getExistedUrl THEN local ELSE local \cup remote


\* ------------------------------------------------------------------------
\* The extraction run: core.ts, default export, from "if (!skipExtract)"
\* ------------------------------------------------------------------------
InitRun(configs, fileContents) ==
  /\ hasApiKey \in BOOLEAN
  /\ i18nConfig \in configs
  /\ \E contents \in SeqsUpTo(fileContents, MaxFiles) :
       sourceFilePaths = WithPaths(contents)
  /\ oldPrimaryLang \in OldLocales
  /\ persisted = oldPrimaryLang
  /\ pc = "Pass1"
  /\ fileIdx = 1
  /\ keyMap = EmptyObj
  /\ currentFileKeyMap = EmptyObj
  /\ countOfAdditions = 0
  /\ openAIKeyMap = EmptyObj
  /\ disk = [i \in 1..Len(sourceFilePaths) |-> NotWritten]
  /\ savedLocale = NotSaved
  /\ keyCache = EmptyObj
  /\ pendingKeys = {}
  /\ writeLog = <<>>
  /\ namingLog = <<>>
  /\ hookLog = <<>>
  /\ passLog = <<>>
  /\ newlyCollected = EmptyObj
  /\ errorLog = {}
  /\ failedRequests = {}
  /\ passNo = 1
  /\ issued = <<>>
  /\ returned = {}
  /\ originals = <<>>
  /\ reply = NoReply
  /\ reservedKeys = {}
  /\ mapping = EmptyObj
  /\ genPc = "call"
  /\ NoOptimize

\* One iteration of sourceFilePaths.forEach (pass 1)
Pass1File ==
  /\ pc = "Pass1"
  /\ fileIdx <= Len(sourceFilePaths)
  /\ LET f == sourceFilePaths[fileIdx]
         st == transform(f, 0)
         wants == ~f.blank /\ Pass1WriteCondition(st.count, f.forceImport)
         throws == wants /\ (FormatThrows(f) \/ (~i18nConfig.inputIsArray /\ WriteThrows(f)))
         writes == wants /\ ~i18nConfig.inputIsArray /\ ~throws
         hooked == /\ ~f.blank
                   /\ ~throws
                   /\ ~(wants /\ i18nConfig.inputIsArray)
                   /\ i18nConfig.adjustKeyMap # "none"
     IN /\ countOfAdditions' = IF f.blank THEN 0 ELSE st.count
        /\ pendingKeys' = IF f.blank THEN pendingKeys ELSE st.pendingKeys
        /\ errorLog' = IF ~f.blank /\ f.malformed
                       THEN errorLog \cup {[path |-> f.path]}
                       ELSE errorLog
        /\ disk' = IF writes
                   THEN [disk EXCEPT ![fileIdx] = [written |-> TRUE, code |-> st.code]]
                   ELSE disk
        /\ writeLog' = IF writes
                       THEN Append(writeLog, [file |-> fileIdx, pass |-> 1,
                                              mapStored |-> genPc = "returned"])
                       ELSE writeLog
        /\ keyMap' = IF f.blank THEN keyMap
                     ELSE IF hooked
                     THEN adjustKeyMap(st.keyMap, st.currentFileKeyMap, f.path)
                     ELSE st.keyMap
        /\ currentFileKeyMap' = IF f.blank THEN currentFileKeyMap
                                ELSE IF hooked THEN EmptyObj
                                ELSE st.currentFileKeyMap
        /\ hookLog' = IF hooked THEN Append(hookLog, [file |-> fileIdx, pass |-> 1])
                      ELSE hookLog
        /\ passLog' = Append(passLog, [file |-> fileIdx, pass |-> 1,
                                       transformed |-> ~f.blank])
        /\ pc' = IF throws THEN "Thrown" ELSE pc
        /\ fileIdx' = IF throws THEN fileIdx ELSE fileIdx + 1
  /\ UNCHANGED <<genVars, i18nConfig, sourceFilePaths, oldPrimaryLang, openAIKeyMap,
                 savedLocale, keyCache, persisted, namingLog, newlyCollected>>
  /\ UNCHANGED <<failedRequests, keysVars, optVars>>

\* if (i18nConfig.incremental) { merge ... }  and the test of hasOpenAI
IncrementalMerge ==
  /\ pc = "Pass1"
  /\ fileIdx > Len(sourceFilePaths)
  /\ newlyCollected' = keyMap
  /\ IF i18nConfig.incremental
     THEN /\ oldPrimaryLang' = merge(oldPrimaryLang, keyMap)
          /\ keyMap' = merge(oldPrimaryLang, keyMap)
     ELSE UNCHANGED <<oldPrimaryLang, keyMap>>
  /\ pc' = IF hasOpenAI THEN "Naming" ELSE "Save"
  /\ UNCHANGED <<genVars, i18nConfig, sourceFilePaths, fileIdx, currentFileKeyMap,
                 countOfAdditions, openAIKeyMap, disk, savedLocale, keyCache, pendingKeys,
                 persisted, writeLog, namingLog, hookLog, passLog>>
  /\ UNCHANGED <<faultVars, keysVars, optVars>>

\* flatMap, originals and the call of getReservedKeysFromExistedConfig
CollectOriginals ==
  /\ pc = "Naming"
  /\ originals' = ObjValues(keyMap)
  /\ pc' = "AwaitReserved"
  /\ UNCHANGED <<hasApiKey, reply, reservedKeys, mapping, genPc>>
  /\ UNCHANGED <<i18nConfig, sourceFilePaths, oldPrimaryLang, fileIdx, keyMap,
                 currentFileKeyMap, countOfAdditions, openAIKeyMap, disk, savedLocale,
                 keyCache, pendingKeys, persisted, writeLog, namingLog, hookLog, passLog,
                 newlyCollected>>
  /\ UNCHANGED <<faultVars, keysVars, optVars>>

\* await getReservedKeysFromExistedConfig() returns; the call of
\* generateSemanticSnakeCaseKeys(originals, openaiCfg, reserved)
CallNaming ==
  /\ pc = "AwaitReserved"
  /\ \E response \in (IF i18nConfig.getExistedUrl THEN Responses ELSE {NoResponse}) :
       /\ reservedKeys' = getReservedKeysFromExistedConfig(response)
       /\ namingLog' =
            Append(namingLog,
                   [pass1 |-> Cardinality({i \in 1..Len(passLog) : passLog[i].pass = 1}),
                    pass2 |-> Cardinality({i \in 1..Len(passLog) : passLog[i].pass = 2}),
                    response |-> response])
  /\ pc' = "AwaitNaming"
  /\ UNCHANGED <<originals, hasApiKey, reply, mapping, genPc>>
  /\ UNCHANGED <<i18nConfig, sourceFilePaths, oldPrimaryLang, fileIdx, keyMap,
                 currentFileKeyMap, countOfAdditions, openAIKeyMap, disk, savedLocale,
                 keyCache, pendingKeys, persisted, writeLog, hookLog, passLog,
                 newlyCollected>>
  /\ UNCHANGED <<faultVars, keysVars, optVars>>

\* await generateSemanticSnakeCaseKeys returns; setOpenAIKeyMap and the
\* reset of the Collector for the second pass
NamingReturns ==
  /\ pc = "AwaitNaming"
  /\ \E r \in (IF hasApiKey THEN RunReplies(SeqRange(originals)) ELSE {NoReply}) :
       /\ reply' = r
       /\ mapping' = generateSemanticSnakeCaseKeys(originals, hasApiKey, r, reservedKeys)
  /\ genPc' = "returned"
  /\ openAIKeyMap' = setOpenAIKeyMap(mapping')
  /\ keyMap' = Pass2StartKeyMap
  /\ currentFileKeyMap' = EmptyObj
  /\ fileIdx' = 1
  /\ pc' = "Pass2"
  /\ UNCHANGED <<originals, hasApiKey, reservedKeys>>
  /\ UNCHANGED <<i18nConfig, sourceFilePaths, oldPrimaryLang, countOfAdditions, disk,
                 savedLocale, keyCache, pendingKeys, persisted, writeLog, namingLog,
                 hookLog, passLog, newlyCollected>>
  /\ UNCHANGED <<faultVars, keysVars, optVars>>

\* One iteration of "for (const sourceFilePath of sourceFilePaths)" (pass 2)
Pass2File ==
  /\ pc = "Pass2"
  /\ fileIdx <= Len(sourceFilePaths)
  /\ LET f == sourceFilePaths[fileIdx]
         st == transform(f, countOfAdditions)
         throws == FormatThrows(f) \/ (~i18nConfig.inputIsArray /\ WriteThrows(f))
         writes == ~i18nConfig.inputIsArray /\ ~throws
     IN /\ countOfAdditions' = st.count
        /\ pendingKeys' = st.pendingKeys
        /\ errorLog' = IF f.malformed THEN errorLog \cup {[path |-> f.path]} ELSE errorLog
        /\ keyMap' = st.keyMap
        /\ currentFileKeyMap' = st.currentFileKeyMap
        /\ newlyCollected' = st.keyMap
        /\ disk' = IF writes
                   THEN [disk EXCEPT ![fileIdx] = [written |-> TRUE, code |-> st.code]]
                   ELSE disk
        /\ writeLog' = IF writes
                       THEN Append(writeLog, [file |-> fileIdx, pass |-> 2,
                                              mapStored |-> genPc = "returned"])
                       ELSE writeLog
        /\ passLog' = Append(passLog, [file |-> fileIdx, pass |-> 2,
                                       transformed |-> TRUE])
        /\ pc' = IF throws THEN "Thrown" ELSE pc
        /\ fileIdx' = IF throws THEN fileIdx ELSE fileIdx + 1
  /\ UNCHANGED <<genVars, i18nConfig, sourceFilePaths, oldPrimaryLang, openAIKeyMap,
                 savedLocale, keyCache, persisted, namingLog, hookLog>>
  /\ UNCHANGED <<failedRequests, keysVars, optVars>>

\* saveLocale(savePath)
saveLocale ==
  /\ \/ pc = "Save"
     \/ pc = "Pass2" /\ fileIdx > Len(sourceFilePaths)
  /\ savedLocale' = [saved |-> TRUE, keyMap |-> keyMap]
  /\ pc' = "Done"
  /\ UNCHANGED <<genVars, i18nConfig, sourceFilePaths, oldPrimaryLang, fileIdx, keyMap,
                 currentFileKeyMap, countOfAdditions, openAIKeyMap, disk, keyCache,
                 pendingKeys, persisted, writeLog, namingLog, hookLog, passLog,
                 newlyCollected>>
  /\ UNCHANGED <<faultVars, keysVars, optVars>>

\* callbacks that can run at any time
AtAwait_Anytime == TRUE

\* The run is suspended at an await (or has ended): only then can the
\* callbacks of a per-literal request run.
AtAwait == pc \in {"AwaitReserved", "AwaitNaming", "Done"}

\* pendingKeys.delete(cacheKey) that leaves the entry in the map
DeletePending_Kept(pending, cacheKey) == pending

\* pendingKeys.delete(cacheKey)
DeletePending(pending, cacheKey) == {q \in pending : q.cacheKey # cacheKey}

\* generationPromise.then(...): the request delivered a key
RequestSucceeds ==
  /\ AtAwait
  /\ \E r \in pendingKeys :
       /\ keyCache' = ObjSet(keyCache, r.cacheKey, GeneratedKey)
       /\ pendingKeys' = DeletePending(pendingKeys, r.cacheKey)
  /\ UNCHANGED <<genVars, i18nConfig, sourceFilePaths, oldPrimaryLang, pc, fileIdx, keyMap,
                 currentFileKeyMap, countOfAdditions, openAIKeyMap, disk, savedLocale,
                 persisted, writeLog, namingLog, hookLog, passLog, newlyCollected>>
  /\ UNCHANGED <<faultVars, keysVars, optVars>>

\* generationPromise.catch(...): the request failed
RequestFails ==
  /\ AtAwait
  /\ \E r \in pendingKeys :
       /\ keyCache' = ObjSet(keyCache, r.cacheKey, generateTempKey(r.key, r.path))
       /\ pendingKeys' = DeletePending(pendingKeys, r.cacheKey)
       /\ failedRequests' = failedRequests \cup {r}
  /\ UNCHANGED <<genVars, i18nConfig, sourceFilePaths, oldPrimaryLang, pc, fileIdx, keyMap,
                 currentFileKeyMap, countOfAdditions, openAIKeyMap, disk, savedLocale,
                 persisted, writeLog, namingLog, hookLog, passLog, newlyCollected>>
  /\ UNCHANGED <<errorLog, keysVars, optVars>>

Init == InitRun(Configs, FileContents) /\ OPENAI_API_KEY = FALSE

Next ==
  \/ Pass1File
  \/ IncrementalMerge
  \/ CollectOriginals
  \/ CallNaming
  \/ NamingReturns
  \/ Pass2File
  \/ saveLocale

Spec == Init /\ [][Next]_vars

\* The run with per-literal asynchronous naming (createEnhancedCustomizeKey)
InitAsync == InitRun(AsyncConfigs, FileContents) /\ OPENAI_API_KEY = FALSE

NextAsync ==
  \/ Pass1File
  \/ IncrementalMerge
  \/ CollectOriginals
  \/ CallNaming
  \/ NamingReturns
  \/ Pass2File
  \/ saveLocale
  \/ RequestSucceeds
  \/ RequestFails

SpecAsync == InitAsync /\ [][NextAsync]_vars

\* The run in which a file does not parse or cannot be written
\* The run reads no environment variable: a run starts with
\* OPENAI_API_KEY set or not set
InitFaults == InitRun(FaultConfigs, FaultyContents) /\ OPENAI_API_KEY \in BOOLEAN

SpecFaults == InitFaults /\ [][Next]_vars


\* ------------------------------------------------------------------------
\* SpecKeys: the customizeKey of createEnhancedCustomizeKey called by the
\* passes of successive runs in one process
\* ------------------------------------------------------------------------
\* the (literal, path) pairs the rewritten files hold
KeyPairs ==
  {[key |-> TiJiao, path |-> FilePath(1)], [key |-> TiJiao, path |-> FilePath(2)],
   [key |-> QueRen, path |-> FilePath(1)]}

InitKeys ==
  /\ hasApiKey = FALSE
  /\ i18nConfig \in {c \in AsyncConfigs : ~c.baseUrl}
  /\ sourceFilePaths = <<>>
  /\ oldPrimaryLang = EmptyObj
  /\ persisted = EmptyObj
  /\ pc = "Pass1"
  /\ fileIdx = 1
  /\ keyMap = EmptyObj
  /\ currentFileKeyMap = EmptyObj
  /\ countOfAdditions = 0
  /\ openAIKeyMap = EmptyObj
  /\ disk = <<>>
  /\ savedLocale = NotSaved
  /\ keyCache = EmptyObj
  /\ pendingKeys = {}
  /\ writeLog = <<>>
  /\ namingLog = <<>>
  /\ hookLog = <<>>
  /\ passLog = <<>>
  /\ newlyCollected = EmptyObj
  /\ originals = <<>>
  /\ reply = NoReply
  /\ reservedKeys = {}
  /\ mapping = EmptyObj
  /\ genPc = "call"
  /\ errorLog = {}
  /\ failedRequests = {}
  /\ passNo = 1
  /\ issued = <<>>
  /\ returned = {}
  /\ NoOptimize
  /\ OPENAI_API_KEY = FALSE

\* customizeKey(key, path) called for a literal of the file being rewritten
KeyCallOf(pairs) ==
  /\ pc = "Pass1"
  /\ Len(issued) <= MaxRequests
  /\ \E p \in pairs :
       LET a == customizeKey(p.key, p.path, pendingKeys)
       IN /\ pendingKeys' = a.pendingKeys
          /\ issued' = IF a.dispatched THEN Append(issued, p) ELSE issued
          /\ returned' = returned \cup
                           {[key |-> p.key, path |-> p.path, pass |-> passNo,
                             result |-> a.key]}
  /\ UNCHANGED <<genVars, i18nConfig, sourceFilePaths, oldPrimaryLang, pc, fileIdx, keyMap,
                 currentFileKeyMap, countOfAdditions, openAIKeyMap, disk, savedLocale,
                 keyCache, persisted, writeLog, namingLog, hookLog, passLog,
                 newlyCollected>>
  /\ UNCHANGED <<faultVars, passNo, optVars>>

KeyCall == KeyCallOf(KeyPairs)

\* the synchronous pass over the files ends and the run goes on to its end
PassEnds ==
  /\ pc = "Pass1"
  /\ pc' = "Done"
  /\ UNCHANGED <<genVars, i18nConfig, sourceFilePaths, oldPrimaryLang, fileIdx, keyMap,
                 currentFileKeyMap, countOfAdditions, openAIKeyMap, disk, savedLocale,
                 keyCache, pendingKeys, persisted, writeLog, namingLog, hookLog, passLog,
                 newlyCollected>>
  /\ UNCHANGED <<faultVars, keysVars, optVars>>

\* the default export is called again in the same process: the module's
\* keyCache and pendingKeys live on
RunAgain ==
  /\ pc = "Done"
  /\ passNo < MaxPasses
  /\ passNo' = passNo + 1
  /\ pc' = "Pass1"
  /\ UNCHANGED <<genVars, i18nConfig, sourceFilePaths, oldPrimaryLang, fileIdx, keyMap,
                 currentFileKeyMap, countOfAdditions, openAIKeyMap, disk, savedLocale,
                 keyCache, pendingKeys, persisted, writeLog, namingLog, hookLog, passLog,
                 newlyCollected>>
  /\ UNCHANGED <<faultVars, issued, returned, optVars>>

NextKeys ==
  \/ KeyCall
  \/ PassEnds
  \/ RunAgain
  \/ RequestSucceeds
  \/ RequestFails

SpecKeys == InitKeys /\ [][NextKeys]_vars


\* Distinct literals of a sequence, in the order of their first occurrence
RECURSIVE FirstOccurrences(_)
FirstOccurrences(s) ==
  IF s = <<>> THEN <<>>
  ELSE LET front == FirstOccurrences(SubSeq(s, 1, Len(s) - 1))
       IN IF s[Len(s)] \in SeqRange(front) THEN front ELSE Append(front, s[Len(s)])

\* C4: the mapping returned by generateSemanticSnakeCaseKeys has exactly the
\* distinct input literals as its domain, one entry per literal, every key
\* is non-empty, and no two literals share a key, on every return path.
C4_OneKeyPerLiteral ==
  genPc = "returned" =>
    /\ ObjKeySet(mapping) = SeqRange(originals)
    /\ Len(mapping) = Cardinality(SeqRange(originals))
    /\ \A i \in 1..Len(mapping) : mapping[i].v # <<>>
    /\ \A i, j \in 1..Len(mapping) : mapping[i].v = mapping[j].v => i = j

\* two distinct literals were given the same key by the reply (or by the
\* fallback) and the call has returned
C4_Witness ==
  /\ genPc = "returned"
  /\ Len(originals) = 3
  /\ originals[1] = originals[3]
  /\ originals[1] # originals[2]
  /\ reply.kind = "parsed"
  /\ \A o \in SeqRange(originals) : reply.parsed[o] = StringValue(Submit)

\* C5: no key of the returned mapping is a reserved key, on every return
\* path.
C5_NoReservedKey ==
  genPc = "returned" => ObjValueSet(mapping) \cap reservedKeys = {}

\* a key proposed for a literal was reserved and the call has returned
C5_Witness ==
  /\ genPc = "returned"
  /\ reservedKeys # {}
  /\ \/ /\ reply.kind = "parsed"
        /\ \E o \in SeqRange(originals) :
             reply.parsed[o].isString /\ Trim(reply.parsed[o].str) \in reservedKeys
     \/ /\ reply.kind # "parsed"
        /\ \E i \in 1..Len(originals) : NaiveKey(originals[i], i - 1) \in reservedKeys

\* C6: when the reply names several distinct literals alike and nothing is
\* reserved, the first literal encountered keeps the bare key and the j-th
\* one (j >= 2) gets the key with the suffix _j.
C6_SuffixFromTwo ==
  (/\ genPc = "returned"
   /\ reply.kind = "parsed"
   /\ reservedKeys = {}
   /\ \A o \in SeqRange(originals) : reply.parsed[o] = StringValue(Submit))
  => LET d == FirstOccurrences(originals)
     IN \A j \in 1..Len(d) :
          ObjGet(mapping, d[j]) = IF j = 1 THEN Submit ELSE Suffixed(Submit, j)

\* ------------------------------------------------------------------------
\* The extraction run: properties
\* ------------------------------------------------------------------------
\* Semantic naming is enabled: an OpenAI apiKey or baseUrl is configured
NamingEnabled == hasApiKey \/ i18nConfig.baseUrl

\* the files processed so far in the given pass
ProcessedIn(pass) == {i \in 1..Len(passLog) : passLog[i].pass = pass}

\* C1: in a run with semantic naming enabled no file is written during
\* pass 1; every write of the run happens in pass 2, after the naming call
\* has returned and its mapping has been stored with setOpenAIKeyMap.
C1_WritesOnlyInPass2 ==
  NamingEnabled =>
    \A i \in 1..Len(writeLog) :
      /\ writeLog[i].pass = 2
      /\ writeLog[i].mapStored
      /\ openAIKeyMap = mapping

\* a run with semantic naming enabled has ended after it wrote a file that
\* holds a literal
C1_Witness ==
  /\ pc = "Done"
  /\ NamingEnabled
  /\ \E i \in 1..Len(writeLog) : sourceFilePaths[writeLog[i].file].literals # <<>>

\* C2: when semantic naming is enabled, after a completed run every key at
\* a call site of a written file is a key of the saved Key Map, stored there
\* with the text it replaced, and it is the final key the naming call
\* returned for that text, not a provisional one.
C2_WrittenKeysAreFinal ==
  (pc = "Done" /\ NamingEnabled) =>
    \A i \in 1..Len(disk) :
      disk[i].written =>
        /\ Len(disk[i].code) = Len(sourceFilePaths[i].literals)
        /\ \A j \in 1..Len(disk[i].code) :
             LET key == disk[i].code[j]
                 text == sourceFilePaths[i].literals[j]
             IN /\ ObjHas(savedLocale.keyMap, key)
                /\ ObjGet(savedLocale.keyMap, key) = text
                /\ ObjHas(mapping, text)
                /\ key = ObjGet(mapping, text)

\* a run with semantic naming enabled has ended with two written files
\* that hold the same literal
C2_Witness ==
  /\ pc = "Done"
  /\ NamingEnabled
  /\ savedLocale.saved
  /\ \E i, j \in 1..Len(disk) :
       /\ i # j
       /\ disk[i].written /\ disk[j].written
       /\ SeqRange(disk[i].code) \cap SeqRange(disk[j].code) # {}

\* C3: with semantic naming enabled the naming collaborator is called
\* exactly once per run, after the last file of pass 1 and before the first
\* file of pass 2; with semantic naming disabled it is never called and no
\* file is processed in a second pass.
C3_NamingCalledOnce ==
  /\ Len(namingLog) <= 1
  /\ \A i \in 1..Len(namingLog) :
       /\ namingLog[i].pass1 = Len(sourceFilePaths)
       /\ namingLog[i].pass2 = 0
  /\ ProcessedIn(2) # {} => Len(namingLog) = 1
  /\ (pc = "Done" /\ NamingEnabled) => Len(namingLog) = 1
  /\ ~NamingEnabled => (namingLog = <<>> /\ ProcessedIn(2) = {})

\* a run with only a baseUrl configured has ended after both passes went
\* over two files
C3_Witness ==
  /\ pc = "Done"
  /\ ~hasApiKey
  /\ i18nConfig.baseUrl
  /\ Len(sourceFilePaths) = 2
  /\ Cardinality(ProcessedIn(2)) = 2
  /\ Len(namingLog) = 1

\* the key is the locally generated key of the literal, possibly suffixed
IsLocalKey(key, text, idx) ==
  LET naive == NaiveKey(text, idx)
  IN Len(key) >= Len(naive) /\ SubSeq(key, 1, Len(naive)) = naive

\* C7 (as claimed): when the request of the naming pass fails as a whole,
\* pass 2 is not carried out: no file is processed a second time and no
\* file is written.
C7_BatchFailureStopsPass2 ==
  (hasApiKey /\ genPc = "returned" /\ reply.kind = "rejected") =>
    (ProcessedIn(2) = {} /\ writeLog = <<>>)

\* C7 (amended): when the request of the naming pass fails as a whole, the
\* naming call returns a locally generated key for every literal of the
\* batch, no reserved key among them, these keys are stored with
\* setOpenAIKeyMap, and the run ends with every file processed in pass 2.
C7_BatchFailureFallsBack ==
  (hasApiKey /\ genPc = "returned" /\ reply.kind = "rejected") =>
    /\ ObjKeySet(openAIKeyMap) = SeqRange(originals)
    /\ \A i \in 1..Len(originals) :
         \E j \in 1..Len(originals) :
           /\ originals[j] = originals[i]
           /\ IsLocalKey(ObjGet(openAIKeyMap, originals[i]), originals[j], j - 1)
    /\ ObjValueSet(openAIKeyMap) \cap reservedKeys = {}
    /\ pc = "Done" => Cardinality(ProcessedIn(2)) = Len(sourceFilePaths)

\* the request of the naming pass failed and the run has ended with a file
\* rewritten in pass 2 with a locally generated key
C7_Witness ==
  /\ pc = "Done"
  /\ hasApiKey
  /\ reply.kind = "rejected"
  /\ \E i \in 1..Len(disk) : disk[i].written /\ disk[i].code # <<>>

\* C8: in a run with the incremental flag set, the saved Key Map is the
\* union of the persisted Key Map and the newly collected one: a persisted
\* entry whose key was not newly collected is kept with its old text, and a
\* newly collected entry is saved with its new text.
C8_IncrementalUnion ==
  (pc = "Done" /\ i18nConfig.incremental) =>
    /\ \A i \in 1..Len(persisted) :
         ~ObjHas(newlyCollected, persisted[i].k) =>
           /\ ObjHas(savedLocale.keyMap, persisted[i].k)
           /\ ObjGet(savedLocale.keyMap, persisted[i].k) = persisted[i].v
    /\ \A i \in 1..Len(newlyCollected) :
         /\ ObjHas(savedLocale.keyMap, newlyCollected[i].k)
         /\ ObjGet(savedLocale.keyMap, newlyCollected[i].k) = newlyCollected[i].v
    /\ ObjKeySet(savedLocale.keyMap) = ObjKeySet(persisted) \cup ObjKeySet(newlyCollected)

\* C9: when adjustKeyMap is configured, the hook has been invoked exactly
\* once for every file rewritten in either pass by the time the next file
\* starts.
C9_HookOncePerFilePerPass ==
  i18nConfig.adjustKeyMap # "none" =>
    \A i \in 1..Len(passLog) :
      passLog[i].transformed =>
        Cardinality({j \in 1..Len(hookLog) :
                       /\ hookLog[j].file = passLog[i].file
                       /\ hookLog[j].pass = passLog[i].pass}) = 1

\* C10: no per-literal naming request is in flight while pass 2 goes over
\* the files.
C10_DrainedBeforePass2 ==
  pc = "Pass2" => pendingKeys = {}


\* ------------------------------------------------------------------------
\* customizeKey: properties
\* ------------------------------------------------------------------------
\* C11: at most one naming request is ever issued for a (literal, path)
\* pair, whatever the order of customizeKey calls and request completions:
\* no pair occurs twice among the requests issued, and a pair in flight
\* has no cached key.
C11_OneRequestPerPair ==
  /\ \A i, j \in 1..Len(issued) : issued[i] = issued[j] => i = j
  /\ \A r \in pendingKeys :
       /\ ~ObjHas(keyCache, r.cacheKey)
       /\ \E i \in 1..Len(issued) : issued[i] = [key |-> r.key, path |-> r.path]

\* a pair was asked for in two passes, its request completed in between,
\* and one request was issued for it
C11_Witness ==
  /\ passNo = 2
  /\ \E a, b \in returned :
       /\ a.key = b.key /\ a.path = b.path
       /\ a.pass = 1 /\ b.pass = 2
       /\ ObjHas(keyCache, CacheKey(a.key, a.path))
       /\ \E i \in 1..Len(issued) : issued[i] = [key |-> a.key, path |-> a.path]

\* C12: within one pass, every call of customizeKey for a given literal and
\* path returns the same key.
C12_SameKeyWithinPass ==
  \A a, b \in returned :
    (a.key = b.key /\ a.path = b.path /\ a.pass = b.pass) => a.result = b.result

\* a pair was given its temporary key throughout one pass while its request
\* was in flight, and the generated key in the next pass
C12_Witness ==
  \E a, b \in returned :
    /\ a.key = b.key /\ a.path = b.path
    /\ a.pass = 1 /\ b.pass = 2
    /\ a.result = generateTempKey(a.key, a.path)
    /\ b.result = GeneratedKey


\* ------------------------------------------------------------------------
\* The extraction run: failures
\* ------------------------------------------------------------------------
\* C13: a file that does not parse does not abort the run, in pass 1 or in
\* pass 2: the run never stops at such a file.
C13_ParseFailureNotFatal ==
  \A i \in 1..Len(sourceFilePaths) :
    sourceFilePaths[i].malformed =>
      ~(pc = "Thrown" /\ fileIdx = i)

\* C14: a file that cannot be written does not abort the run: the run
\* never stops at such a file.
C14_WriteFailureNotFatal ==
  \A i \in 1..Len(sourceFilePaths) :
    sourceFilePaths[i].unwritable => ~(pc = "Thrown" /\ fileIdx = i)


\* ------------------------------------------------------------------------
\* The extraction run: files and Collector across the passes
\* ------------------------------------------------------------------------
\* C15: a file in which no literal was extracted and whose rule does not
\* force the import is never written, in any pass.
C15_UnmatchedFileNotWritten ==
  \A i \in 1..Len(sourceFilePaths) :
    (sourceFilePaths[i].literals = <<>> /\ ~sourceFilePaths[i].forceImport) =>
      ~disk[i].written

\* C16: an empty file is neither parsed and rewritten nor written, in any
\* pass.
C16_EmptyFileSkipped ==
  /\ \A n \in 1..Len(passLog) :
       sourceFilePaths[passLog[n].file].blank => ~passLog[n].transformed
  /\ \A i \in 1..Len(sourceFilePaths) : sourceFilePaths[i].blank => ~disk[i].written

\* C17: when pass 2 begins the Collector's Key Map and its current-file Key
\* Map are empty, and every entry of the Key Map saved after pass 2 was
\* added in pass 2: its key is the final key of its text, and the text is a
\* literal of an input file.
C17_Pass2StartsEmpty ==
  /\ (pc = "Pass2" /\ fileIdx = 1) => (keyMap = EmptyObj /\ currentFileKeyMap = EmptyObj)
  /\ (pc = "Done" /\ NamingEnabled) =>
       \A n \in 1..Len(savedLocale.keyMap) :
         LET e == savedLocale.keyMap[n]
         IN /\ ObjHas(mapping, e.v)
            /\ e.k = ObjGet(mapping, e.v)
            /\ \E i \in 1..Len(sourceFilePaths) : e.v \in SeqRange(sourceFilePaths[i].literals)

\* pass 2 begins after pass 1 collected keys, and a locale file was there
C17_Witness ==
  /\ pc = "Pass2"
  /\ fileIdx = 1
  /\ newlyCollected # EmptyObj
  /\ persisted # EmptyObj
  /\ i18nConfig.incremental

\* C18: the count of additions is reset before pass 2 begins and before
\* each file of pass 2: during pass 2 it is the number of additions of the
\* file just processed, 0 before the first file.
C18_CountResetInPass2 ==
  pc = "Pass2" =>
    countOfAdditions = IF fileIdx = 1 THEN 0
                       ELSE Len(sourceFilePaths[fileIdx - 1].literals)

\* C19: the literals passed to the naming collaborator hold every literal
\* collected in pass 1 and none of them twice.
C19_OriginalsDistinctAndComplete ==
  namingLog # <<>> =>
    /\ \A i, j \in 1..Len(originals) : originals[i] = originals[j] => i = j
    /\ \A i \in 1..Len(sourceFilePaths) :
         ~sourceFilePaths[i].blank => SeqRange(sourceFilePaths[i].literals) \subseteq SeqRange(originals)

\* C20: every literal whose per-literal naming request failed is in the
\* records the orchestrator reports at the end of the run.
C20_FailedRequestsRecorded ==
  \A r \in failedRequests :
    \E e \in errorLog : e = [key |-> r.key, path |-> r.path]

\* ------------------------------------------------------------------------
\* openaiKeyGenerator.ts: OpenAIKeyGenerator.generateKey
\* ------------------------------------------------------------------------
StartsWith(s, prefix) == Len(s) >= Len(prefix) /\ SubSeq(s, 1, Len(prefix)) = prefix

\* .toLowerCase().replace(/\s+/g, '_').replace(/-/g, '_')
\* .replace(/[^a-z0-9_]/g, '_').replace(/_+/g, '_').replace(/^_|_$/g, '')
CleanKey(s) ==
  LET lower == ToLowerCase(s)
      replaced == [i \in 1..Len(lower) |->
                     IF lower[i] \in LowerChars \cup DigitChars \cup {"_"}
                     THEN lower[i] ELSE "_"]
  IN DropTrailingUnderscore(DropLeadingUnderscore(MergeUnderscores(replaced)))

\* The segments of the path inferPathFromKey joins with '/'
inferPathFromKey(key) ==
  LET Project == <<"P", "r", "o", "j", "e", "c", "t">>
      Customer == <<"C", "u", "s", "t", "o", "m", "e", "r">>
      management == <<"m", "a", "n", "a", "g", "e", "m", "e", "n", "t">>
      project == <<"p", "r", "o", "j", "e", "c", "t">>
  IN IF StartsWith(key, project \o <<"_", "s", "e", "t", "t", "i", "n", "g", "_">>)
     THEN <<Pages, Project \o Settings>>
     ELSE IF StartsWith(key, <<"a", "c", "c", "o", "u", "n", "t", "_">> \o management \o <<"_">>)
     THEN <<Pages, <<"A", "c", "c", "o", "u", "n", "t">> \o Management>>
     ELSE IF StartsWith(key, ToLowerCase(Authorization) \o <<"_">>)
     THEN <<Pages, Authorization \o Management>>
     ELSE IF Includes(key, <<"c", "u", "s", "t", "o", "m", "e", "r", "_">> \o project
                           \o <<"_">> \o management)
     THEN <<Pages, Customer \o Project \o Management>>
     ELSE <<>>

\* The module segment of a path: the segment after 'pages', else the first
\* segment that contains Management, Page or Settings; then snake-cased.
\* No segment of a modelled path ends in a source-file extension.
extractContextFromPath(pathSegments) ==
  LET pagesAt == {i \in 1..Len(pathSegments) : pathSegments[i] = Pages}
      pagesIndex == CHOOSE i \in pagesAt : \A j \in pagesAt : i <= j
      matching == {i \in 1..Len(pathSegments) :
                     \/ Includes(pathSegments[i], Management)
                     \/ Includes(pathSegments[i], <<"P", "a", "g", "e">>)
                     \/ Includes(pathSegments[i], Settings)}
      moduleSegment ==
        IF pagesAt # {} /\ pagesIndex < Len(pathSegments) /\ pathSegments[pagesIndex + 1] # <<>>
        THEN pathSegments[pagesIndex + 1]
        ELSE IF matching # {}
        THEN pathSegments[CHOOSE i \in matching : \A j \in matching : i <= j]
        ELSE <<>>
  IN CleanKey(DropLeadingUnderscore(UnderscoreCapitals(moduleSegment)))

sanitizeKey(key, context) ==
  LET cleaned == CleanKey(key)
      safeContext == CleanKey(context)
      withModule ==
        IF context = <<>> THEN cleaned
        ELSE IF /\ cleaned # <<>>
                /\ ~StartsWith(cleaned, safeContext \o <<"_">>)
                /\ cleaned # safeContext
        THEN safeContext \o <<"_">> \o cleaned
        ELSE IF cleaned = <<>> THEN safeContext
        ELSE cleaned
  IN IF withModule # <<>> /\ Head(withModule) \in LowerChars
     THEN withModule
     ELSE <<"k", "e", "y", "_">> \o withModule

isValidKey(key) ==
  /\ Len(key) >= 2
  /\ key[1] \in LowerChars
  /\ key[Len(key)] \in LowerChars \cup DigitChars
  /\ \A i \in 1..Len(key) : key[i] \in LowerChars \cup DigitChars \cup {"_"}
  /\ \A i \in 1..Len(key) : key[i] \notin CjkChars
  /\ Len(key) > 3

\* r is what the chat-completions request gave: kind "error" when fetch
\* rejects, "notOk" when response.ok is false, "ok" with the content of
\* the first choice otherwise.
generateKey(chineseText, filePath, r) ==
  LET context == extractContextFromPath(filePath)
      generatedKey == Trim(r.content)
      normalizedKey == sanitizeKey(generatedKey, context)
      Thrown == [threw |-> TRUE, key |-> <<>>]
  IN IF r.kind # "ok" THEN Thrown
     ELSE IF generatedKey = <<>> THEN Thrown
     ELSE IF ~isValidKey(normalizedKey) THEN Thrown
     ELSE [threw |-> FALSE, key |-> normalizedKey]

KeyReplies ==
  {[kind |-> "error", content |-> <<>>], [kind |-> "notOk", content |-> <<>>],
   [kind |-> "ok", content |-> <<>>],
   [kind |-> "ok", content |-> <<"S", "u", "b", "m", "i", "t">>],
   [kind |-> "ok", content |-> <<" ", "s", "u", "b", "-", "2">>],
   [kind |-> "ok", content |-> TiJiao]}

\* ------------------------------------------------------------------------
\* commands/optimizeKeys/index.ts: optimizeKeys
\* ------------------------------------------------------------------------
\* A property of a locale object is a string or a nested object
ObjectValue(o) == [isString |-> FALSE, obj |-> o]

RECURSIVE flattenObject(_, _)
flattenObject(obj, prefix) ==
  LET RECURSIVE ObjAssign(_, _)
      \* Object.assign(target, source)
      ObjAssign(target, source) ==
        IF source = <<>> THEN target
        ELSE ObjAssign(ObjSet(target, Head(source).k, Head(source).v), Tail(source))
      RECURSIVE Loop(_, _)
      Loop(i, result) ==
        IF i > Len(obj) THEN result
        ELSE LET key == obj[i].k
                 value == obj[i].v
                 newKey == IF prefix # <<>> THEN prefix \o <<".">> \o key ELSE key
             IN IF value.isString
                THEN Loop(i + 1, ObjSet(result, newKey, value.str))
                ELSE Loop(i + 1, ObjAssign(result, flattenObject(value.obj, newKey)))
  IN Loop(1, EmptyObj)

\* The walk along the keys, then current[last] = value.  When the walk
\* steps into a property that holds a string, the `in` test of the next
\* step, or the assignment to a property of a string in a strict-mode
\* module, throws a TypeError.
unflattenObject(flat) ==
  LET RECURSIVE SplitDots(_, _)
      \* key.split('.')
      SplitDots(s, current) ==
        IF s = <<>> THEN <<current>>
        ELSE IF Head(s) = "." THEN <<current>> \o SplitDots(Tail(s), <<>>)
        ELSE SplitDots(Tail(s), current \o <<Head(s)>>)
      RECURSIVE SetPath(_, _, _)
      SetPath(current, keys, value) ==
        IF Len(keys) = 1
        THEN [threw |-> FALSE, obj |-> ObjSet(current, keys[1], StringValue(value))]
        ELSE LET k == Head(keys)
                 child == IF ObjHas(current, k) THEN ObjGet(current, k)
                          ELSE ObjectValue(EmptyObj)
                 inner == SetPath(child.obj, Tail(keys), value)
             IN IF child.isString \/ inner.threw
                THEN [threw |-> TRUE, obj |-> EmptyObj]
                ELSE [threw |-> FALSE, obj |-> ObjSet(current, k, ObjectValue(inner.obj))]
      RECURSIVE Loop(_, _)
      Loop(i, result) ==
        IF i > Len(flat) THEN [threw |-> FALSE, obj |-> result]
        ELSE LET set == SetPath(result, SplitDots(flat[i].k, <<>>), flat[i].v)
             IN IF set.threw THEN set ELSE Loop(i + 1, set.obj)
  IN Loop(1, EmptyObj)

\* The locale files optimize-keys is run on
Locales ==
  LET a == <<"a">>
      b == <<"b">>
      ab == <<"a", ".", "b">>
      auth == ToLowerCase(Authorization) \o <<"_", "a">>
      Entry(key, value) == [k |-> key, v |-> value]
      nested == Entry(a, ObjectValue(<<Entry(b, StringValue(TiJiao))>>))
  IN {EmptyObj,
      <<Entry(a, StringValue(TiJiao))>>,
      <<Entry(a, StringValue(TiJiao)), Entry(b, StringValue(QueRen))>>,
      <<Entry(a, StringValue(TiJiao)), Entry(b, StringValue(TiJiao))>>,
      <<nested>>,
      <<nested, Entry(b, StringValue(QueRen))>>,
      <<Entry(ab, StringValue(TiJiao))>>,
      <<Entry(a, StringValue(TiJiao)), Entry(ab, StringValue(QueRen))>>,
      <<nested, Entry(ab, StringValue(QueRen))>>,
      <<Entry(auth, StringValue(TiJiao))>>}

batchSize == 5

Absent == [exists |-> FALSE, content |-> EmptyObj]
FileWith(content) == [exists |-> TRUE, content |-> content]

\* finalOutputPath and the path of the key-mappings file next to it
finalOutputPath == IF options.outputPath THEN "output" ELSE "locale"
mappingPath == IF options.outputPath THEN "outputMappings" ELSE "localeMappings"

\* Before the run only the locale file exists
InitialFiles ==
  [p \in {"locale", "output", "localeMappings", "outputMappings"} |->
     IF p = "locale" THEN FileWith(originalLocale) ELSE Absent]

InitOpt ==
  /\ options \in [dryRun : BOOLEAN, outputPath : BOOLEAN, apiKey : BOOLEAN]
  /\ OPENAI_API_KEY \in BOOLEAN
  /\ originalLocale \in Locales
  /\ optPc = "Start"
  /\ optimizedKeyMap = EmptyObj
  /\ keyMappings = EmptyObj
  /\ results = <<>>
  /\ files = InitialFiles
  /\ originals = <<>>
  /\ hasApiKey = FALSE
  /\ reply = NoReply
  /\ reservedKeys = {}
  /\ mapping = EmptyObj
  /\ genPc = "call"
  /\ NoRun

\* if (!openaiConfig.apiKey && !process.env.OPENAI_API_KEY) process.exit(1)
OptStart ==
  /\ optPc = "Start"
  /\ optPc' = IF ~options.apiKey /\ ~OPENAI_API_KEY THEN "Exited" ELSE "Batch"
  /\ UNCHANGED <<options, OPENAI_API_KEY, originalLocale, optimizedKeyMap, keyMappings,
                 results, files>>
  /\ UNCHANGED <<genVars, runVars, faultVars, keysVars>>

\* One result of a batch: try generateKey, catch keeps the original key
KeyResult(originalKey, chineseText, r) ==
  LET g == generateKey(chineseText, inferPathFromKey(originalKey), r)
  IN [originalKey |-> originalKey,
      optimizedKey |-> IF g.threw THEN originalKey ELSE g.key,
      chineseText |-> chineseText, threw |-> g.threw, reply |-> r]

\* batchResults.forEach(...)
RECURSIVE MergeResults(_, _, _)
MergeResults(batchResults, optimized, mappings) ==
  IF batchResults = <<>> THEN [optimizedKeyMap |-> optimized, keyMappings |-> mappings]
  ELSE LET r == Head(batchResults)
       IN MergeResults(Tail(batchResults),
                       ObjSet(optimized, r.optimizedKey, r.chineseText),
                       IF r.originalKey # r.optimizedKey
                       THEN ObjSet(mappings, r.originalKey, r.optimizedKey)
                       ELSE mappings)

\* One turn of the batch loop: the requests of the batch settle, then
\* their results are merged.  The loop ends when no key is left.
OptBatch ==
  /\ optPc = "Batch"
  /\ LET flatLocale == flattenObject(originalLocale, <<>>)
         first == Len(results) + 1
         last == IF Len(flatLocale) < Len(results) + batchSize
                 THEN Len(flatLocale) ELSE Len(results) + batchSize
     IN IF first > Len(flatLocale)
        THEN /\ optPc' = "Report"
             /\ UNCHANGED <<optimizedKeyMap, keyMappings, results>>
        ELSE \E replies \in [first..last -> KeyReplies] :
               LET batchResults ==
                     [j \in 1..(last - first + 1) |->
                        KeyResult(flatLocale[first + j - 1].k, flatLocale[first + j - 1].v,
                                  replies[first + j - 1])]
                   merged == MergeResults(batchResults, optimizedKeyMap, keyMappings)
               IN /\ results' = results \o batchResults
                  /\ optimizedKeyMap' = merged.optimizedKeyMap
                  /\ keyMappings' = merged.keyMappings
                  /\ optPc' = "Batch"
  /\ UNCHANGED <<options, OPENAI_API_KEY, originalLocale, files>>
  /\ UNCHANGED <<genVars, runVars, faultVars, keysVars>>

\* if (dryRun) { ...; return }
DryRunReturns_Never == FALSE

DryRunReturns == options.dryRun

\* The end of optimizeKeys: the dry-run return, else the two writes.
\* saveLocaleFile is not reached when unflattenObject throws.
OptFinish ==
  /\ optPc = "Report"
  /\ LET structuredLocale == unflattenObject(optimizedKeyMap)
     IN IF DryRunReturns
        THEN optPc' = "Done" /\ UNCHANGED files
        ELSE IF structuredLocale.threw
        THEN optPc' = "Failed" /\ UNCHANGED files
        ELSE /\ optPc' = "Done"
             /\ files' = [p \in DOMAIN files |->
                            IF p = finalOutputPath THEN FileWith(structuredLocale.obj)
                            ELSE IF p = mappingPath /\ keyMappings # EmptyObj
                            THEN FileWith(keyMappings)
                            ELSE files[p]]
  /\ UNCHANGED <<options, OPENAI_API_KEY, originalLocale, optimizedKeyMap, keyMappings,
                 results>>
  /\ UNCHANGED <<genVars, runVars, faultVars, keysVars>>

NextOpt ==
  \/ OptStart
  \/ OptBatch
  \/ OptFinish

SpecOpt == InitOpt /\ [][NextOpt]_vars

C22_FailedCallFallsBack == \A i \in 1..Len(results) : ~results[i].threw

\* C25: unflattenObject(flattenObject(L)) = L for every locale object L,
\* keys that contain '.' included; and when every request of a run that
\* writes has failed, the saved locale is the original one.
C25_FlattenRoundTrip ==
  LET roundTrip == unflattenObject(flattenObject(originalLocale, <<>>))
  IN /\ ~roundTrip.threw
     /\ roundTrip.obj = originalLocale
     /\ (/\ optPc = "Done"
         /\ ~options.dryRun
         /\ \A i \in 1..Len(results) : results[i].threw)
        => files[finalOutputPath] = FileWith(originalLocale)

\* C26: optimize-keys loses no entry: once the batches are merged, the
\* optimized key map has as many entries as the flattened locale, and the
\* optimized key of every result maps to the text of that result.
C26_NoEntryLost ==
  optPc \in {"Report", "Done", "Failed"} =>
    /\ Len(optimizedKeyMap) = Len(flattenObject(originalLocale, <<>>))
    /\ \A i \in 1..Len(results) :
         /\ ObjHas(optimizedKeyMap, results[i].optimizedKey)
         /\ ObjGet(optimizedKeyMap, results[i].optimizedKey) = results[i].chineseText

\* ------------------------------------------------------------------------
\* Claims about the API key, the shape of the keys and the old locale
\* ------------------------------------------------------------------------
\* C23: when openai.apiKey is empty and OPENAI_API_KEY is set, the
\* extraction names the keys with the key of the environment: once the
\* Key Map of a run that collected a literal is saved, the naming request
\* has been sent (the offline fallback was not the source of the keys).
C23_EnvKeyUsed ==
  (/\ OPENAI_API_KEY
   /\ ~hasApiKey
   /\ savedLocale.saved
   /\ newlyCollected # EmptyObj)
  => (genPc = "returned" /\ reply.kind # "none")

\* C24: every key the OpenAI-based generation gives is written with
\* lowercase letters, digits and underscores only, whatever the model
\* returned: the keys of the mapping of generateSemanticSnakeCaseKeys and
\* the keys generateKey returned to optimize-keys.
C24_KeysAreSnakeCase ==
  /\ genPc = "returned" =>
       \A i \in 1..Len(mapping) : KeepKeyChars(mapping[i].v) = mapping[i].v
  /\ \A i \in 1..Len(results) :
       ~results[i].threw => KeepKeyChars(results[i].optimizedKey) = results[i].optimizedKey

\* C27: the translation step is given oldPrimaryLang with exactly the
\* content read from the locale file: at the end of the extraction it
\* still equals what was read.
C27_OldPrimaryLangUnchanged == pc = "Done" => oldPrimaryLang = persisted

\* ------------------------------------------------------------------------
\* customizeKey called with literals and paths that contain ':'
\* ------------------------------------------------------------------------
\* 提交 in C:/src, 提交:C in /src, 确认 in src/f1.ts
ColonPairs ==
  {[key |-> TiJiao, path |-> <<<<"C", ":">>, Src>>],
   [key |-> TiJiao \o <<":", "C">>, path |-> <<<<>>, Src>>],
   [key |-> QueRen, path |-> FilePath(1)]}

ColonCall == KeyCallOf(ColonPairs)

NextColon ==
  \/ ColonCall
  \/ PassEnds
  \/ RunAgain
  \/ RequestSucceeds
  \/ RequestFails

\* The loop over the files is synchronous and ends; a request that is in
\* flight settles once the run is suspended or over.
SpecColon ==
  /\ InitKeys
  /\ [][NextColon]_vars
  /\ WF_vars(PassEnds)
  /\ WF_vars(RequestSucceeds \/ RequestFails)

\* C28: two different (literal, path) pairs never share a cache entry or
\* an in-flight entry, also when a literal or a path contains ':': a pair
\* has an entry only if a request was issued for that very pair.
C28_PairsDoNotShare ==
  \A p \in ColonPairs :
    (\/ ObjHas(keyCache, CacheKey(p.key, p.path))
     \/ \E r \in pendingKeys : r.cacheKey = CacheKey(p.key, p.path))
    => \E i \in 1..Len(issued) : issued[i] = p

\* a pair is never both cached and in flight; a cached pair gets its
\* cached key from customizeKey, and no request
C29_CachedOrInFlight ==
  /\ \A r \in pendingKeys : ~ObjHas(keyCache, r.cacheKey)
  /\ \A p \in ColonPairs :
       ObjHas(keyCache, CacheKey(p.key, p.path)) =>
         LET a == customizeKey(p.key, p.path, pendingKeys)
         IN ~a.dispatched /\ a.key = ObjGet(keyCache, CacheKey(p.key, p.path))

\* a request that leaves the in-flight map has its cache entry set: the
\* generated key, or the provisional key of the pair it was issued for
C29_SettleStep ==
  \A r \in pendingKeys :
    r \notin pendingKeys' =>
      /\ ObjHas(keyCache', r.cacheKey)
      /\ ObjGet(keyCache', r.cacheKey) \in {GeneratedKey, generateTempKey(r.key, r.path)}

====
